---- MODULE Spec2Model ----
(***************************************************************************)
(* Batch job coordination of paddle-ui: BatchProcessor (batch_processor.py) *)
(* and the Flask request handlers that drive it (app.py).                   *)
(*                                                                          *)
(* The Flask development server handles each request on its own thread, so  *)
(* the model has request threads that interleave between the statements of  *)
(* BatchProcessor; the read-modify-write of _job_counter is split into its  *)
(* read and its write.  SpecSeq is the same program with one request at a   *)
(* time (run to completion).                                                *)
(***************************************************************************)
EXTENDS Integers, Sequences, FiniteSets, TLC

\* ------------------------------------------------------------------ bounds
MaxJobs == 2        \* create_job calls in one run
MaxFiles == 2       \* files of one job
MaxProcess == 2     \* process_*_batch calls in one run
MaxCalls == 4       \* calls of BatchProcessor methods in one run

Threads == {"t1", "t2"}

\* ------------------------------------------------------------ input values
\* File paths, as sequences of characters.
PathUA == <<"u", "/", "a", ".", "p">>
PathB == <<"b", ".", "q">>
PathVA == <<"v", "/", "a", ".", "p">>
FileAt(k) == IF k = 1 THEN PathUA ELSE IF k % 2 = 0 THEN PathB ELSE PathVA

\* The file lists a client submits: 0..MaxFiles uploaded files.
FileLists == { [k \in 1..n |-> FileAt(k)] : n \in 0..MaxFiles }

\* What a document engine can return for a file, and what str(e) can be.
Values == {"r1", "r2"}
Messages == {"e1"}

\* job_type and options as create_job receives them.
JobTypes == {"ocr", "structure", "vl", "pdf"}
OptionValues == {"None"}

\* -------------------------------------------------------------- BatchStatus
PENDING == "pending"
PROCESSING == "processing"
COMPLETED == "completed"
FAILED == "failed"
CANCELLED == "cancelled"
BatchStatus == {PENDING, PROCESSING, COMPLETED, FAILED, CANCELLED}

\* ------------------------------------------------------------ python values
\* A Python value is [tag, val]; None, booleans, strings, dicts, lists and
\* raised exceptions keep their tags apart.
None == [tag |-> "None", val |-> 0]
PyBool(b) == [tag |-> "bool", val |-> b]
PyStr(s) == [tag |-> "str", val |-> s]
PyDict(d) == [tag |-> "dict", val |-> d]
PyList(l) == [tag |-> "list", val |-> l]
Raised(e) == [tag |-> "raise", val |-> e]

\* str(n) for the one-digit numbers the bounds allow
Digit(n) == <<"0", "1", "2", "3", "4", "5", "6", "7", "8", "9">>[n + 1]

\* f"batch_{n}"
JobId(n) == <<"batch_", Digit(n)>>
NoId == <<>>
JobIds == { JobId(n) : n \in 1..MaxJobs }

\* os.path.basename: what follows the last "/".
RECURSIVE LastSlash(_, _)
LastSlash(p, k) ==
    IF k = 0 THEN 0
    ELSE IF p[k] = "/" THEN k ELSE LastSlash(p, k - 1)

basename(p) == SubSeq(p, LastSlash(p, Len(p)) + 1, Len(p))

\* round(progress / total * 100, 1) in tenths of a percent, 0 when total = 0.
\* (x + 5) \div 10 rounds x/10 to the nearest integer; no total below 16 has a tie.
percent(progress, total) ==
    IF total > 0 THEN ((progress * 10000) \div total + 5) \div 10 ELSE 0

\* -------------------------------------------------------------------- state
VARIABLES
    job_counter,    \* BatchProcessor._job_counter
    jobs,           \* BatchProcessor._jobs: entries [id, obj] in insertion order; obj = 0 is a deleted entry
    heap,           \* the BatchJob objects, by reference 1..Len(heap)
    fr,             \* per request thread: program counter, arguments, locals, return value
    ncreate,        \* create_job calls started
    nprocess,       \* process_*_batch calls started
    ncalls,         \* calls started
    fs_dirs,        \* the file system: the directories that exist
    fs_files,       \* the file system: path -> content of the files that exist
    ntmp,           \* directories tempfile.mkdtemp has made
    ocr_engine,     \* app.py's global ocr_engine: <<>> for None, or the engine's <<lang, ocr_version>>
    threaded        \* whether the server handles requests on concurrent threads

vars == <<job_counter, jobs, heap, fr, ncreate, nprocess, ncalls, fs_dirs, fs_files, ntmp,
          ocr_engine, threaded>>

\* the file system
fsys == <<fs_dirs, fs_files, ntmp>>

\* An HTTP response: status code and JSON body.
NoResponse == [code |-> 0, body |-> None]
Response(code, body) == [code |-> code, body |-> body]

\* A thread that is not in a call; a thread whose call has returned keeps the
\* call's frame (with ret) until its next call.
IdleFrame ==
    [pc |-> "idle", op |-> "none", job_id |-> NoId, job |-> 0, kind |-> "none",
     job_type |-> "none", files |-> <<>>, options |-> "None", i |-> 0, tmp |-> 0,
     gjob |-> 0, invoked |-> <<>>, outs |-> <<>>, output_dir |-> <<>>, ret |-> None,
     http |-> "none", lang |-> "", version |-> "", engine |-> <<>>, resp |-> NoResponse]

\* self._jobs.get(job_id): the object reference, 0 for None.
RECURSIVE Find(_, _, _)
Find(d, id, k) ==
    IF k > Len(d) THEN 0
    ELSE IF d[k].id = id /\ d[k].obj # 0 THEN k ELSE Find(d, id, k + 1)

Lookup(d, id) == IF Find(d, id, 1) = 0 THEN 0 ELSE d[Find(d, id, 1)].obj

\* self._jobs[job_id] = job
DictSet(d, id, o) ==
    IF Find(d, id, 1) # 0
    THEN [d EXCEPT ![Find(d, id, 1)].obj = o]
    ELSE Append(d, [id |-> id, obj |-> o])

\* Faulty variant: every entry of the dict is removed
DictDelAll(d, id) == [k \in 1..Len(d) |-> [d[k] EXCEPT !.obj = 0]]

\* del self._jobs[job_id]
DictDel(d, id) == [d EXCEPT ![Find(d, id, 1)].obj = 0]

\* BatchProcessor.__init__ and the globals of app.py
Start ==
    /\ job_counter = 0
    /\ jobs = <<>>
    /\ heap = <<>>
    /\ fr = [t \in Threads |-> IdleFrame]
    /\ ncreate = 0
    /\ nprocess = 0
    /\ ncalls = 0
    /\ fs_dirs = {}
    /\ fs_files = <<>>
    /\ ntmp = 0
    /\ ocr_engine = <<>>

\* The server of app.run: threaded (the default of the development server)
Init == Start /\ threaded = TRUE

\* ... or one request at a time: a call runs to its return before the next starts.
InitSeq == Start /\ threaded = FALSE

Idle(t) == fr[t].pc = "idle"

\* The thread's frame after one statement.
Step(t, f) == fr' = [fr EXCEPT ![t] = f]

\* return v: the call's locals are gone, its arguments and its result remain.
\* A call made by a request handler of app.py returns into the handler.
Ret(f, v) ==
    IF f.http = "none"
    THEN [IdleFrame EXCEPT !.op = f.op, !.job_id = f.job_id, !.job = f.job, !.ret = v]
    ELSE [f EXCEPT !.pc = IF f.http = "get_batch_job" THEN "gbj_respond"
                          ELSE IF f.http = "delete_batch_job" THEN "dbj_respond"
                          ELSE IF f.http = "export_batch_results" THEN "ebj_respond"
                          ELSE IF f.op = "get_job" THEN "pbj_dispatch" ELSE "pbj_respond",
                   !.ret = v]

\* A thread starts a call of method op.
Call(t, op) ==
    /\ Idle(t)
    /\ threaded \/ \A u \in Threads : Idle(u)
    /\ ncalls < MaxCalls
    /\ ncalls' = ncalls + 1

Frame(op, id) == [IdleFrame EXCEPT !.op = op, !.job_id = id]

\* ----------------------------------------------------------------- create_job
\* create_job(job_type, files, options) is called;
\* self._job_counter += 1 : the read
generate_job_id_read(t, types) ==
    /\ Call(t, "create_job")
    /\ ncreate < MaxJobs
    /\ ncreate' = ncreate + 1
    /\ \E files \in FileLists, job_type \in types, options \in OptionValues :
         Step(t, [IdleFrame EXCEPT !.pc = "gen_write", !.op = "create_job",
                                   !.job_type = job_type, !.files = files,
                                   !.options = options, !.tmp = job_counter])
    /\ UNCHANGED <<threaded, job_counter, jobs, heap, nprocess, fsys, ocr_engine>>

\* self._job_counter += 1 : the write
generate_job_id_write(t) ==
    /\ fr[t].pc = "gen_write"
    /\ job_counter' = fr[t].tmp + 1
    /\ Step(t, [fr[t] EXCEPT !.pc = "gen_format"])
    /\ UNCHANGED <<threaded, jobs, heap, ncreate, nprocess, ncalls, fsys, ocr_engine>>

\* Faulty variant: the id is made from the number of jobs in the store
generate_job_id_from_size(t) ==
    /\ fr[t].pc = "gen_format"
    /\ Step(t, [fr[t] EXCEPT !.pc = "create_store",
                             !.job_id = JobId(Cardinality({k \in 1..Len(jobs) : jobs[k].obj # 0}) + 1)])
    /\ UNCHANGED <<threaded, job_counter, jobs, heap, ncreate, nprocess, ncalls, fsys, ocr_engine>>

\* return f"batch_{self._job_counter}"
generate_job_id_format(t) ==
    /\ fr[t].pc = "gen_format"
    /\ Step(t, [fr[t] EXCEPT !.pc = "create_store", !.job_id = JobId(job_counter)])
    /\ UNCHANGED <<threaded, job_counter, jobs, heap, ncreate, nprocess, ncalls, fsys, ocr_engine>>

\* Faulty variant: total is set to 0 instead of len(files)
NewJobZeroTotal(id, job_type, files, options) ==
    [job_id |-> id, job_type |-> job_type, files |-> files, status |-> PENDING,
     progress |-> 0, total |-> 0, results |-> <<>>, errors |-> <<>>,
     options |-> IF options = "None" THEN "{}" ELSE options]

\* BatchJob(job_id=job_id, ..., options=options or {})
NewJob(id, job_type, files, options) ==
    [job_id |-> id, job_type |-> job_type, files |-> files, status |-> PENDING,
     progress |-> 0, total |-> Len(files), results |-> <<>>, errors |-> <<>>,
     options |-> IF options = "None" THEN "{}" ELSE options]

\* job = BatchJob(...); self._jobs[job_id] = job; return job_id
create_job_store(t) ==
    /\ fr[t].pc = "create_store"
    /\ heap' = Append(heap, NewJob(fr[t].job_id, fr[t].job_type, fr[t].files, fr[t].options))
    /\ jobs' = DictSet(jobs, fr[t].job_id, Len(heap) + 1)
    /\ Step(t, Ret([fr[t] EXCEPT !.job = Len(heap) + 1], PyStr(fr[t].job_id)))
    /\ UNCHANGED <<threaded, job_counter, ncreate, nprocess, ncalls, fsys, ocr_engine>>

\* -------------------------------------------------------------------- get_job
\* The dict get_job returns.
Snapshot(j) ==
    PyDict([job_id |-> j.job_id, job_type |-> j.job_type, status |-> j.status,
            progress |-> j.progress, total |-> j.total,
            percent |-> percent(j.progress, j.total),
            results_count |-> Len(j.results), errors_count |-> Len(j.errors),
            results |-> j.results, errors |-> j.errors])

NotFound == PyDict([error |-> "Job not found"])

\* job = self._jobs.get(job_id); if not job: return None
GetLookup(f) ==
    IF Lookup(jobs, f.job_id) = 0
    THEN Ret(f, None)
    ELSE [f EXCEPT !.pc = "get_build", !.gjob = Lookup(jobs, f.job_id)]

\* get_job(job_id) is called
get_job_lookup(t) ==
    /\ Call(t, "get_job")
    /\ \E id \in JobIds : Step(t, GetLookup(Frame("get_job", id)))
    /\ UNCHANGED <<threaded, job_counter, jobs, heap, ncreate, nprocess, fsys, ocr_engine>>

\* return {'job_id': job.job_id, ...}
get_job_build(t) ==
    /\ fr[t].pc = "get_build"
    /\ Step(t, Ret(fr[t], Snapshot(heap[fr[t].gjob])))
    /\ UNCHANGED <<threaded, job_counter, jobs, heap, ncreate, nprocess, ncalls, fsys, ocr_engine>>

\* ------------------------------------------------------------ process_*_batch
\* process_ocr_batch, process_structure_batch, process_vl_batch
ProcessKinds == {"ocr", "structure", "vl"}

\* The engine method each of them calls.
EngineMethod(kind) == IF kind = "ocr" THEN "detect_text" ELSE "parse_document"

\* process_*_batch(job_id, engine) is called;
\* job = self._jobs.get(job_id); if not job: return {'error': 'Job not found'}
\* Faulty variant: an unknown job answered with None instead of the not-found dict
ProcessLookupNone(f) ==
    IF Lookup(jobs, f.job_id) = 0
    THEN Ret(f, None)
    ELSE [f EXCEPT !.pc = "proc_start", !.job = Lookup(jobs, f.job_id)]

ProcessLookup(f) ==
    IF Lookup(jobs, f.job_id) = 0
    THEN Ret(f, NotFound)
    ELSE [f EXCEPT !.pc = "proc_start", !.job = Lookup(jobs, f.job_id)]

process_batch_lookup(t) ==
    /\ Call(t, "process_batch")
    /\ nprocess < MaxProcess
    /\ nprocess' = nprocess + 1
    /\ \E id \in JobIds, kind \in ProcessKinds :
         Step(t, ProcessLookup([Frame("process_batch", id) EXCEPT !.kind = kind]))
    /\ UNCHANGED <<threaded, job_counter, jobs, heap, ncreate, fsys, ocr_engine>>

\* Faulty variant: an exception of the engine ends the loop
LoopNextAbortOnError(f, j, i) ==
    IF i < Len(j.files) /\ (f.outs = <<>> \/ f.outs[Len(f.outs)].ok)
    THEN [f EXCEPT !.pc = "engine_wait", !.i = i,
                   !.invoked = Append(@, [method |-> EngineMethod(f.kind),
                                          file |-> j.files[i + 1], index |-> i])]
    ELSE [f EXCEPT !.pc = "proc_finish", !.i = i]

\* Faulty variant: the engine is given the files in reverse order
LoopNextReversed(f, j, i) ==
    IF i < Len(j.files)
    THEN [f EXCEPT !.pc = "engine_wait", !.i = i,
                   !.invoked = Append(@, [method |-> EngineMethod(f.kind),
                                          file |-> j.files[Len(j.files) - i],
                                          index |-> Len(j.files) - 1 - i])]
    ELSE [f EXCEPT !.pc = "proc_finish", !.i = i]

\* Faulty variant: the loop stops when it finds the job cancelled
LoopNextStopIfCancelled(f, j, i) ==
    IF i < Len(j.files) /\ j.status # CANCELLED
    THEN [f EXCEPT !.pc = "engine_wait", !.i = i,
                   !.invoked = Append(@, [method |-> EngineMethod(f.kind),
                                          file |-> j.files[i + 1], index |-> i])]
    ELSE [f EXCEPT !.pc = "proc_finish", !.i = i]

\* for i, file_path in enumerate(job.files): the next item, or the end of the loop;
\* in the loop, result = engine.detect_text(file_path) / parse_document(file_path) is called.
LoopNext(f, j, i) ==
    IF i < Len(j.files)
    THEN [f EXCEPT !.pc = "engine_wait", !.i = i,
                   !.invoked = Append(@, [method |-> EngineMethod(f.kind),
                                          file |-> j.files[i + 1], index |-> i])]
    ELSE [f EXCEPT !.pc = "proc_finish", !.i = i]

\* job.status = BatchStatus.PROCESSING
process_batch_start(t) ==
    /\ fr[t].pc = "proc_start"
    /\ heap' = [heap EXCEPT ![fr[t].job].status = PROCESSING]
    /\ Step(t, LoopNext(fr[t], heap[fr[t].job], 0))
    /\ UNCHANGED <<threaded, job_counter, jobs, ncreate, nprocess, ncalls, fsys, ocr_engine>>

\* Faulty variant: the record keeps the whole path
ResultRecordFullPath(file_path, i, result) ==
    [file |-> file_path, index |-> i, success |-> TRUE, data |-> result]

ResultRecord(file_path, i, result) ==
    [file |-> basename(file_path), index |-> i, success |-> TRUE, data |-> result]

ErrorRecord(file_path, i, e) ==
    [file |-> basename(file_path), index |-> i, error |-> e]

\* Faulty variant: the record of a success is put in front of the earlier ones
engine_return_prepend(t, values) ==
    /\ fr[t].pc = "engine_wait"
    /\ \E v \in values :
         /\ heap' = [heap EXCEPT ![fr[t].job].results =
                        <<ResultRecord(heap[fr[t].job].files[fr[t].i + 1], fr[t].i, v)>> \o @]
         /\ Step(t, [fr[t] EXCEPT !.pc = "set_progress",
                                  !.outs = Append(@, [ok |-> TRUE, val |-> v])])
    /\ UNCHANGED <<threaded, job_counter, jobs, ncreate, nprocess, ncalls, fsys, ocr_engine>>

\* The engine returns: job.results.append({...})
engine_return(t, values) ==
    /\ fr[t].pc = "engine_wait"
    /\ \E v \in values :
         /\ heap' = [heap EXCEPT ![fr[t].job].results =
                        Append(@, ResultRecord(heap[fr[t].job].files[fr[t].i + 1], fr[t].i, v))]
         /\ Step(t, [fr[t] EXCEPT !.pc = "set_progress",
                                  !.outs = Append(@, [ok |-> TRUE, val |-> v])])
    /\ UNCHANGED <<threaded, job_counter, jobs, ncreate, nprocess, ncalls, fsys, ocr_engine>>

\* The engine raises: except Exception as e: job.errors.append({...})
engine_raise(t) ==
    /\ fr[t].pc = "engine_wait"
    /\ \E m \in Messages :
         /\ heap' = [heap EXCEPT ![fr[t].job].errors =
                        Append(@, ErrorRecord(heap[fr[t].job].files[fr[t].i + 1], fr[t].i, m))]
         /\ Step(t, [fr[t] EXCEPT !.pc = "set_progress",
                                  !.outs = Append(@, [ok |-> FALSE, val |-> m])])
    /\ UNCHANGED <<threaded, job_counter, jobs, ncreate, nprocess, ncalls, fsys, ocr_engine>>

\* job.progress = i + 1, and on to the next item of the loop
process_batch_progress(t) ==
    /\ fr[t].pc = "set_progress"
    /\ heap' = [heap EXCEPT ![fr[t].job].progress = fr[t].i + 1]
    /\ Step(t, LoopNext(fr[t], heap[fr[t].job], fr[t].i + 1))
    /\ UNCHANGED <<threaded, job_counter, jobs, ncreate, nprocess, ncalls, fsys, ocr_engine>>

\* Faulty variant: a job with failed files ends FAILED
FinalStatusFailed(kind, j) ==
    IF j.errors = <<>> THEN COMPLETED ELSE FAILED

\* Faulty variant: a job with failed files goes back to PENDING to be run again
FinalStatusRetry(kind, j) ==
    IF j.errors = <<>> THEN COMPLETED ELSE PENDING

\* Faulty variant: only process_ocr_batch marks a job with failed files FAILED
FinalStatusOcrFailed(kind, j) ==
    IF kind = "ocr"
    THEN (IF j.errors = <<>> THEN COMPLETED ELSE FAILED)
    ELSE COMPLETED

\* The status assigned after the loop: process_ocr_batch has a conditional whose
\* two branches are the same status, the other two assign it directly.
FinalStatus(kind, j) ==
    IF kind = "ocr"
    THEN (IF j.errors = <<>> THEN COMPLETED ELSE COMPLETED)
    ELSE COMPLETED

\* Faulty variant: the file list of a processed job is emptied
process_batch_finish_clearing(t) ==
    /\ fr[t].pc = "proc_finish"
    /\ heap' = [heap EXCEPT ![fr[t].job].status = FinalStatus(fr[t].kind, heap[fr[t].job]),
                            ![fr[t].job].files = <<>>]
    /\ Step(t, [fr[t] EXCEPT !.pc = "proc_get"])
    /\ UNCHANGED <<threaded, job_counter, jobs, ncreate, nprocess, ncalls, fsys, ocr_engine>>

\* job.status = BatchStatus.COMPLETED ...
process_batch_finish(t) ==
    /\ fr[t].pc = "proc_finish"
    /\ heap' = [heap EXCEPT ![fr[t].job].status = FinalStatus(fr[t].kind, heap[fr[t].job])]
    /\ Step(t, [fr[t] EXCEPT !.pc = "proc_get"])
    /\ UNCHANGED <<threaded, job_counter, jobs, ncreate, nprocess, ncalls, fsys, ocr_engine>>

\* return self.get_job(job_id): the lookup of get_job
process_batch_get(t) ==
    /\ fr[t].pc = "proc_get"
    /\ Step(t, GetLookup(fr[t]))
    /\ UNCHANGED <<threaded, job_counter, jobs, heap, ncreate, nprocess, ncalls, fsys, ocr_engine>>

\* ------------------------------------------------------------------ cancel_job
\* cancel_job(job_id) is called;
\* job = self._jobs.get(job_id); if not job: return False
cancel_job_lookup(t) ==
    /\ Call(t, "cancel_job")
    /\ \E id \in JobIds :
         IF Lookup(jobs, id) = 0
         THEN Step(t, Ret(Frame("cancel_job", id), PyBool(FALSE)))
         ELSE Step(t, [Frame("cancel_job", id) EXCEPT
                           !.pc = "cancel_check", !.job = Lookup(jobs, id)])
    /\ UNCHANGED <<threaded, job_counter, jobs, heap, ncreate, nprocess, fsys, ocr_engine>>

\* Faulty variant: a completed job can be cancelled
CancellableCompleted(status) == status \in {PENDING, PROCESSING, COMPLETED}

Cancellable(status) == status \in {PENDING, PROCESSING}

\* if job.status in [PENDING, PROCESSING]: ... ; return False
cancel_job_check(t) ==
    /\ fr[t].pc = "cancel_check"
    /\ IF Cancellable(heap[fr[t].job].status)
       THEN Step(t, [fr[t] EXCEPT !.pc = "cancel_set"])
       ELSE Step(t, Ret(fr[t], PyBool(FALSE)))
    /\ UNCHANGED <<threaded, job_counter, jobs, heap, ncreate, nprocess, ncalls, fsys, ocr_engine>>

\* job.status = BatchStatus.CANCELLED; return True
cancel_job_set(t) ==
    /\ fr[t].pc = "cancel_set"
    /\ heap' = [heap EXCEPT ![fr[t].job].status = CANCELLED]
    /\ Step(t, Ret(fr[t], PyBool(TRUE)))
    /\ UNCHANGED <<threaded, job_counter, jobs, ncreate, nprocess, ncalls, fsys, ocr_engine>>

\* ------------------------------------------------------------------ delete_job
\* delete_job(job_id) is called;
\* if job_id in self._jobs: ... ; return False
DeleteCheck(f) ==
    IF Lookup(jobs, f.job_id) # 0
    THEN [f EXCEPT !.pc = "delete_del"]
    ELSE Ret(f, PyBool(FALSE))

delete_job_check(t) ==
    /\ Call(t, "delete_job")
    /\ \E id \in JobIds : Step(t, DeleteCheck(Frame("delete_job", id)))
    /\ UNCHANGED <<threaded, job_counter, jobs, heap, ncreate, nprocess, fsys, ocr_engine>>

\* del self._jobs[job_id]; return True   (KeyError when the key has gone meanwhile)
delete_job_del(t) ==
    /\ fr[t].pc = "delete_del"
    /\ IF Lookup(jobs, fr[t].job_id) # 0
       THEN /\ jobs' = DictDel(jobs, fr[t].job_id)
            /\ Step(t, Ret(fr[t], PyBool(TRUE)))
       ELSE /\ jobs' = jobs
            /\ Step(t, Ret(fr[t], Raised("KeyError")))
    /\ UNCHANGED <<threaded, job_counter, heap, ncreate, nprocess, ncalls, fsys, ocr_engine>>

\* ------------------------------------------------------------------- list_jobs
\* Faulty variant: the keys come out newest first
RECURSIVE KeysNewestFirst(_)
KeysNewestFirst(d) ==
    IF d = <<>> THEN <<>>
    ELSE IF Head(d).obj = 0 THEN KeysNewestFirst(Tail(d))
         ELSE KeysNewestFirst(Tail(d)) \o <<Head(d).id>>

\* The live keys of a dict, in insertion order.
RECURSIVE Keys(_)
Keys(d) ==
    IF d = <<>> THEN <<>>
    ELSE IF Head(d).obj = 0 THEN Keys(Tail(d)) ELSE <<Head(d).id>> \o Keys(Tail(d))

\* get_job(job_id) in one piece, as list_jobs evaluates it for each key.
GetJob(d, h, id) == IF Lookup(d, id) = 0 THEN None ELSE Snapshot(h[Lookup(d, id)])

\* return [self.get_job(job_id) for job_id in self._jobs.keys()]
list_jobs(t) ==
    /\ Call(t, "list_jobs")
    /\ Step(t, Ret(Frame("list_jobs", NoId),
                   PyList([k \in 1..Len(Keys(jobs)) |-> GetJob(jobs, heap, Keys(jobs)[k])])))
    /\ UNCHANGED <<threaded, job_counter, jobs, heap, ncreate, nprocess, fsys, ocr_engine>>

\* -------------------------------------------------------------- export_results
\* The output_dir argument: None, or a directory name.
OutputDirs == { <<>>, << <<"out">> >> }

\* os.path.splitext(name)[0]: the name up to its last "." (leading dots are no extension)
RECURSIVE LastDot(_, _)
LastDot(name, k) ==
    IF k = 0 THEN 0
    ELSE IF name[k] = "." THEN k ELSE LastDot(name, k - 1)

RECURSIVE LeadingDots(_, _)
LeadingDots(name, k) ==
    IF k < Len(name) /\ name[k + 1] = "." THEN LeadingDots(name, k + 1) ELSE k

splitext_root(name) ==
    IF LastDot(name, Len(name)) > LeadingDots(name, 0)
    THEN SubSeq(name, 1, LastDot(name, Len(name)) - 1)
    ELSE name

\* os.path.join(output_dir, f'{job_id}_results.json')
CombinedPath(dir, id) == dir \o <<id \o <<"_results.json">> >>
\* os.path.join(output_dir, 'individual')
IndividualDir(dir) == dir \o << <<"individual">> >>
\* os.path.join(individual_dir, f'{file_name}_result.json')
ResultPath(dir, file) == IndividualDir(dir) \o <<splitext_root(file) \o <<"_result.json">> >>

\* Faulty variant: a file that exists is not written again
WriteFileIfAbsent(files, path, content) ==
    [q \in (DOMAIN files) \cup {path} |-> IF q \in DOMAIN files THEN files[q] ELSE content]

\* open(path, 'w') ... json.dump(content, f)
WriteFile(files, path, content) ==
    [q \in (DOMAIN files) \cup {path} |-> IF q = path THEN content ELSE files[q]]

CombinedContent(j) ==
    [job_id |-> j.job_id, job_type |-> j.job_type, total_files |-> j.total,
     successful |-> Len(j.results), failed |-> Len(j.errors),
     results |-> j.results, errors |-> j.errors]

\* export_results(job_id, output_dir) is called;
\* job = self._jobs.get(job_id); if not job: return {'error': 'Job not found'}
ExportLookup(f, dir) ==
    IF Lookup(jobs, f.job_id) = 0
    THEN Ret(f, NotFound)
    ELSE [f EXCEPT !.pc = "export_combined", !.job = Lookup(jobs, f.job_id),
                   !.output_dir = dir]

export_results_lookup(t) ==
    /\ Call(t, "export_results")
    /\ \E id \in JobIds, dir \in OutputDirs :
         Step(t, ExportLookup(Frame("export_results", id), dir))
    /\ UNCHANGED <<threaded, job_counter, jobs, heap, ncreate, nprocess, fsys, ocr_engine>>

\* if output_dir is None: output_dir = tempfile.mkdtemp(); os.makedirs(output_dir);
\* the combined file is written; os.makedirs(individual_dir)
export_results_combined(t) ==
    /\ fr[t].pc = "export_combined"
    /\ LET fresh == fr[t].output_dir = <<>>
           dir == IF fresh THEN << <<"tmp", Digit(ntmp + 1)>> >> ELSE fr[t].output_dir
       IN  /\ ntmp' = IF fresh THEN ntmp + 1 ELSE ntmp
           /\ fs_dirs' = fs_dirs \cup {dir, IndividualDir(dir)}
           /\ fs_files' = WriteFile(fs_files, CombinedPath(dir, fr[t].job_id),
                                    CombinedContent(heap[fr[t].job]))
           /\ Step(t, [fr[t] EXCEPT !.pc = "export_individual", !.output_dir = dir, !.i = 0])
    /\ UNCHANGED <<threaded, job_counter, jobs, heap, ncreate, nprocess, ncalls, ocr_engine>>

\* Faulty variant: the loop takes each result off the job's list as it writes it
export_results_individual_popping(t) ==
    /\ fr[t].pc = "export_individual"
    /\ LET j == heap[fr[t].job]
           dir == fr[t].output_dir
       IN  IF j.results # <<>>
           THEN /\ fs_files' = WriteFile(fs_files, ResultPath(dir, Head(j.results).file),
                                         Head(j.results).data)
                /\ heap' = [heap EXCEPT ![fr[t].job].results = Tail(@)]
                /\ Step(t, [fr[t] EXCEPT !.i = fr[t].i + 1])
           ELSE /\ fs_files' = fs_files
                /\ heap' = heap
                /\ Step(t, Ret(fr[t],
                      PyDict([success |-> TRUE, output_dir |-> dir,
                              combined_file |-> CombinedPath(dir, fr[t].job_id),
                              individual_dir |-> IndividualDir(dir),
                              total_exported |-> fr[t].i])))
    /\ UNCHANGED <<threaded, job_counter, jobs, ncreate, nprocess, ncalls, fs_dirs, ntmp, ocr_engine>>

\* for result in job.results: the file of one result is written; after the last, return {...}
export_results_individual(t) ==
    /\ fr[t].pc = "export_individual"
    /\ LET j == heap[fr[t].job]
           dir == fr[t].output_dir
       IN  IF fr[t].i < Len(j.results)
           THEN /\ fs_files' = WriteFile(fs_files, ResultPath(dir, j.results[fr[t].i + 1].file),
                                         j.results[fr[t].i + 1].data)
                /\ Step(t, [fr[t] EXCEPT !.i = fr[t].i + 1])
           ELSE /\ fs_files' = fs_files
                /\ Step(t, Ret(fr[t],
                      PyDict([success |-> TRUE, output_dir |-> dir,
                              combined_file |-> CombinedPath(dir, fr[t].job_id),
                              individual_dir |-> IndividualDir(dir),
                              total_exported |-> Len(j.results)])))
    /\ UNCHANGED <<threaded, job_counter, jobs, heap, ncreate, nprocess, ncalls, fs_dirs, ntmp, ocr_engine>>

\* -------------------------------------------- app.py: POST /api/batch/<id>/process
\* lang and version as a request can give them ("xx" is no key of OCREngine.LANGUAGES).
Configs == { <<"en", "PP-OCRv5">>, <<"ch", "PP-OCRv5">>, <<"xx", "PP-OCRv5">> }

\* OCREngine.__init__: lang in LANGUAGES and ocr_version in OCR_VERSIONS
Supported(lang, version) ==
    lang \in {"en", "ch"} /\ version \in {"PP-OCRv5", "PP-OCRv4", "PP-OCRv3"}

\* The handler returns jsonify(body), code.
Respond(f, code, body) ==
    [IdleFrame EXCEPT !.op = f.op, !.http = f.http, !.job_id = f.job_id, !.job = f.job,
                      !.ret = f.ret, !.resp = Response(code, body)]

ErrorBody(msg) == PyDict([error |-> msg])

\* process_batch_job(job_id) is called; job = batch_processor.get_job(job_id): its lookup
process_batch_job_get(t) ==
    /\ Call(t, "process_batch_job")
    /\ nprocess < MaxProcess
    /\ nprocess' = nprocess + 1
    /\ \E id \in JobIds, cfg \in Configs :
         Step(t, GetLookup([Frame("get_job", id) EXCEPT !.http = "process_batch_job",
                                                      !.lang = cfg[1], !.version = cfg[2]]))
    /\ UNCHANGED <<threaded, job_counter, jobs, heap, ncreate, fsys, ocr_engine>>

\* if not job: 404; job_type = job['job_type']; the if / elif chain on job_type.
\* get_structure_engine and get_vl_engine are defined nowhere in app.py: calling
\* them raises NameError, which the handler's except turns into a 500.
\* Faulty variant: a job of an unrecognized job_type is processed as an 'ocr' job
DispatchDefaultOcr(f) ==
    IF f.ret = None
    THEN Respond(f, 404, ErrorBody("Job not found"))
    ELSE IF f.ret.val.job_type = "structure"
    THEN Respond(f, 500, ErrorBody("name 'get_structure_engine' is not defined"))
    ELSE IF f.ret.val.job_type = "vl"
    THEN Respond(f, 500, ErrorBody("name 'get_vl_engine' is not defined"))
    ELSE [f EXCEPT !.pc = "ocr_check"]

Dispatch(f) ==
    IF f.ret = None
    THEN Respond(f, 404, ErrorBody("Job not found"))
    ELSE IF f.ret.val.job_type = "ocr"
    THEN [f EXCEPT !.pc = "ocr_check"]
    ELSE IF f.ret.val.job_type = "structure"
    THEN Respond(f, 500, ErrorBody("name 'get_structure_engine' is not defined"))
    ELSE IF f.ret.val.job_type = "vl"
    THEN Respond(f, 500, ErrorBody("name 'get_vl_engine' is not defined"))
    ELSE Respond(f, 400, ErrorBody("Unknown job type: " \o f.ret.val.job_type))

process_batch_job_dispatch(t) ==
    /\ fr[t].pc = "pbj_dispatch"
    /\ Step(t, Dispatch(fr[t]))
    /\ UNCHANGED <<threaded, job_counter, jobs, heap, ncreate, nprocess, ncalls, fsys, ocr_engine>>

\* get_ocr_engine: if ocr_engine is None or ocr_engine.lang != lang or ocr_engine.ocr_version != version
get_ocr_engine_check(t) ==
    /\ fr[t].pc = "ocr_check"
    /\ IF ocr_engine = <<>> \/ ocr_engine # <<fr[t].lang, fr[t].version>>
       THEN Step(t, [fr[t] EXCEPT !.pc = "ocr_construct"])
       ELSE Step(t, [fr[t] EXCEPT !.pc = "ocr_return"])
    /\ UNCHANGED <<threaded, job_counter, jobs, heap, ncreate, nprocess, ncalls, fsys, ocr_engine>>

\* ocr_engine = OCREngine(lang=lang, ocr_version=version)
get_ocr_engine_construct(t) ==
    /\ fr[t].pc = "ocr_construct"
    /\ Supported(fr[t].lang, fr[t].version)
    /\ ocr_engine' = <<fr[t].lang, fr[t].version>>
    /\ Step(t, [fr[t] EXCEPT !.pc = "ocr_return"])
    /\ UNCHANGED <<threaded, job_counter, jobs, heap, ncreate, nprocess, ncalls, fsys>>

\* OCREngine(...) raises: ValueError for an unsupported lang or version, RuntimeError
\* when PaddleOCR fails to initialize; the handler's except answers 500.
get_ocr_engine_raise(t) ==
    /\ fr[t].pc = "ocr_construct"
    /\ Step(t, Respond(fr[t], 500,
                       ErrorBody(IF Supported(fr[t].lang, fr[t].version)
                                 THEN "Failed to initialize PaddleOCR"
                                 ELSE "Unsupported language")))
    /\ UNCHANGED <<threaded, job_counter, jobs, heap, ncreate, nprocess, ncalls, fsys, ocr_engine>>

\* return ocr_engine
get_ocr_engine_return(t) ==
    /\ fr[t].pc = "ocr_return"
    /\ Step(t, [fr[t] EXCEPT !.pc = "pbj_process", !.engine = ocr_engine])
    /\ UNCHANGED <<threaded, job_counter, jobs, heap, ncreate, nprocess, ncalls, fsys, ocr_engine>>

\* result = batch_processor.process_ocr_batch(job_id, engine): its lookup
process_batch_job_process(t) ==
    /\ fr[t].pc = "pbj_process"
    /\ Step(t, ProcessLookup([fr[t] EXCEPT !.op = "process_batch", !.kind = "ocr"]))
    /\ UNCHANGED <<threaded, job_counter, jobs, heap, ncreate, nprocess, ncalls, fsys, ocr_engine>>

\* return jsonify(result)
process_batch_job_respond(t) ==
    /\ fr[t].pc = "pbj_respond"
    /\ Step(t, Respond(fr[t], 200, fr[t].ret))
    /\ UNCHANGED <<threaded, job_counter, jobs, heap, ncreate, nprocess, ncalls, fsys, ocr_engine>>

\* ---------------------------------------------------- app.py: GET /api/batch/<id>
\* get_batch_job(job_id) is called; job = batch_processor.get_job(job_id): its lookup
get_batch_job_get(t) ==
    /\ Call(t, "get_batch_job")
    /\ \E id \in JobIds :
         Step(t, GetLookup([Frame("get_job", id) EXCEPT !.http = "get_batch_job"]))
    /\ UNCHANGED <<threaded, job_counter, jobs, heap, ncreate, nprocess, fsys, ocr_engine>>

\* if not job: return jsonify({'error': 'Job not found'}), 404; return jsonify(job)
GetResponse(f) ==
    IF f.ret = None
    THEN Respond(f, 404, ErrorBody("Job not found"))
    ELSE Respond(f, 200, f.ret)

get_batch_job_respond(t) ==
    /\ fr[t].pc = "gbj_respond"
    /\ Step(t, GetResponse(fr[t]))
    /\ UNCHANGED <<threaded, job_counter, jobs, heap, ncreate, nprocess, ncalls, fsys, ocr_engine>>

\* ------------------------------------------------- app.py: DELETE /api/batch/<id>
\* delete_batch_job(job_id) is called; batch_processor.delete_job(job_id): its test
delete_batch_job_delete(t) ==
    /\ Call(t, "delete_batch_job")
    /\ \E id \in JobIds :
         Step(t, DeleteCheck([Frame("delete_job", id) EXCEPT !.http = "delete_batch_job"]))
    /\ UNCHANGED <<threaded, job_counter, jobs, heap, ncreate, nprocess, fsys, ocr_engine>>

\* if batch_processor.delete_job(job_id): return jsonify({'success': True, ...})
\* return jsonify({'error': 'Job not found'}), 404
\* The handler has no try: an exception of delete_job is Flask's 500 response.
DeleteResponse(f) ==
    IF f.ret = PyBool(TRUE)
    THEN Respond(f, 200, PyDict([success |-> TRUE, message |-> "Job deleted"]))
    ELSE IF f.ret = PyBool(FALSE)
    THEN Respond(f, 404, ErrorBody("Job not found"))
    ELSE Respond(f, 500, ErrorBody("Internal Server Error"))

delete_batch_job_respond(t) ==
    /\ fr[t].pc = "dbj_respond"
    /\ Step(t, DeleteResponse(fr[t]))
    /\ UNCHANGED <<threaded, job_counter, jobs, heap, ncreate, nprocess, ncalls, fsys, ocr_engine>>

\* --------------------------------------------- app.py: POST /api/batch/<id>/export
\* export_batch_results(job_id) is called;
\* result = batch_processor.export_results(job_id): its lookup (output_dir is None)
export_batch_results_export(t) ==
    /\ Call(t, "export_batch_results")
    /\ \E id \in JobIds :
         Step(t, ExportLookup([Frame("export_results", id) EXCEPT
                                  !.http = "export_batch_results"], <<>>))
    /\ UNCHANGED <<threaded, job_counter, jobs, heap, ncreate, nprocess, fsys, ocr_engine>>

\* return jsonify(result): whatever export_results returned, with status 200
ExportResponse(f) == Respond(f, 200, f.ret)

export_batch_results_respond(t) ==
    /\ fr[t].pc = "ebj_respond"
    /\ Step(t, ExportResponse(fr[t]))
    /\ UNCHANGED <<threaded, job_counter, jobs, heap, ncreate, nprocess, ncalls, fsys, ocr_engine>>

\* ------------------------------------------------------------ specifications
\* One statement of one request thread in create_job, get_job, process_*_batch,
\* cancel_job or delete_job; the engines of this specification return one value.
Statement(t) ==
    \/ generate_job_id_read(t, {"ocr"})
    \/ generate_job_id_write(t)
    \/ generate_job_id_format(t)
    \/ create_job_store(t)
    \/ get_job_lookup(t)
    \/ get_job_build(t)
    \/ process_batch_lookup(t)
    \/ process_batch_start(t)
    \/ engine_return(t, {"r1"})
    \/ engine_raise(t)
    \/ process_batch_progress(t)
    \/ process_batch_finish(t)
    \/ process_batch_get(t)
    \/ cancel_job_lookup(t)
    \/ cancel_job_check(t)
    \/ cancel_job_set(t)
    \/ delete_job_check(t)
    \/ delete_job_del(t)

\* Requests are served on concurrent threads.
Next == \E t \in Threads : Statement(t)

Spec == Init /\ [][Next]_vars

\* One statement of any method of BatchProcessor.
AnyStatement(t) ==
    \/ generate_job_id_read(t, {"ocr"})
    \/ generate_job_id_write(t)
    \/ generate_job_id_format(t)
    \/ create_job_store(t)
    \/ get_job_lookup(t)
    \/ get_job_build(t)
    \/ process_batch_lookup(t)
    \/ process_batch_start(t)
    \/ engine_return(t, Values)
    \/ engine_raise(t)
    \/ process_batch_progress(t)
    \/ process_batch_finish(t)
    \/ process_batch_get(t)
    \/ cancel_job_lookup(t)
    \/ cancel_job_check(t)
    \/ cancel_job_set(t)
    \/ delete_job_check(t)
    \/ delete_job_del(t)
    \/ list_jobs(t)
    \/ export_results_lookup(t)
    \/ export_results_combined(t)
    \/ export_results_individual(t)

\* One request at a time, any method.
SeqNext == \E t \in Threads : AnyStatement(t)

SpecSeq == InitSeq /\ [][SeqNext]_vars

\* One statement of a client of the HTTP API: GET, DELETE, process and export of
\* /api/batch/<id>; jobs of every job_type are created, and cancel_job is called.
HttpStatement(t) ==
    \/ generate_job_id_read(t, JobTypes)
    \/ generate_job_id_write(t)
    \/ generate_job_id_format(t)
    \/ create_job_store(t)
    \/ get_job_build(t)
    \/ process_batch_start(t)
    \/ engine_return(t, {"r1"})
    \/ engine_raise(t)
    \/ process_batch_progress(t)
    \/ process_batch_finish(t)
    \/ process_batch_get(t)
    \/ cancel_job_lookup(t)
    \/ cancel_job_check(t)
    \/ cancel_job_set(t)
    \/ delete_job_del(t)
    \/ process_batch_job_get(t)
    \/ process_batch_job_dispatch(t)
    \/ get_ocr_engine_check(t)
    \/ get_ocr_engine_construct(t)
    \/ get_ocr_engine_raise(t)
    \/ get_ocr_engine_return(t)
    \/ process_batch_job_process(t)
    \/ process_batch_job_respond(t)
    \/ get_batch_job_get(t)
    \/ get_batch_job_respond(t)
    \/ delete_batch_job_delete(t)
    \/ delete_batch_job_respond(t)
    \/ export_batch_results_export(t)
    \/ export_results_combined(t)
    \/ export_results_individual(t)
    \/ export_batch_results_respond(t)

\* One HTTP request at a time.
HttpNext == \E t \in Threads : HttpStatement(t)

SpecHttp == InitSeq /\ [][HttpNext]_vars

\* One statement of a create_job call or of a POST /api/batch/<id>/process request;
\* the OCR engine, once made, reads every file of this specification.
ProcessRequestStatement(t) ==
    \/ generate_job_id_read(t, {"ocr"})
    \/ generate_job_id_write(t)
    \/ generate_job_id_format(t)
    \/ create_job_store(t)
    \/ process_batch_job_get(t)
    \/ get_job_build(t)
    \/ process_batch_job_dispatch(t)
    \/ get_ocr_engine_check(t)
    \/ get_ocr_engine_construct(t)
    \/ get_ocr_engine_raise(t)
    \/ get_ocr_engine_return(t)
    \/ process_batch_job_process(t)
    \/ process_batch_start(t)
    \/ engine_return(t, {"r1"})
    \/ process_batch_progress(t)
    \/ process_batch_finish(t)
    \/ process_batch_get(t)
    \/ process_batch_job_respond(t)

\* Process requests served on concurrent threads.
ProcessRequestNext == \E t \in Threads : ProcessRequestStatement(t)

SpecProcessRequests == Init /\ [][ProcessRequestNext]_vars

\* ------------------------------------------------------------------- claims
Objs == 1..Len(heap)

\* The 'index' values of a sequence of records, and their places.
Indexes(recs) == [k \in 1..Len(recs) |-> recs[k].index]
Places(recs, i) == { k \in 1..Len(recs) : recs[k].index = i }

\* A thread whose process_*_batch call found its job and has left the for loop.
LoopDone(t) ==
    /\ fr[t].op = "process_batch"
    /\ fr[t].pc \in {"proc_finish", "proc_get", "get_build"}

\* A thread whose process_*_batch call found its job and has returned.
ProcessReturned(t) == fr[t].op = "process_batch" /\ fr[t].pc = "idle" /\ fr[t].job # 0

AllIdle == \A t \in Threads : Idle(t)

\* C1: per-file failure isolation. In a process_*_batch call on an existing job,
\* whatever the engine returned or raised so far, the engine has been invoked once
\* on each file up to the current one, in order; once the loop is left it has been
\* invoked exactly once on every file of the job, and an outcome is recorded for
\* each; and the call never returns by raising.
C1_FailureIsolation ==
    \A t \in Threads :
        /\ (fr[t].op = "process_batch" /\ fr[t].pc \in {"engine_wait", "set_progress"}) =>
              /\ Len(fr[t].invoked) = fr[t].i + 1
              /\ Len(fr[t].outs) = IF fr[t].pc = "engine_wait" THEN fr[t].i ELSE fr[t].i + 1
        /\ (fr[t].op = "process_batch" /\ fr[t].job # 0 /\ fr[t].pc # "idle") =>
              \A k \in 1..Len(fr[t].invoked) :
                  /\ fr[t].invoked[k].index = k - 1
                  /\ fr[t].invoked[k].file = heap[fr[t].job].files[k]
        /\ LoopDone(t) =>
              /\ Len(fr[t].invoked) = Len(heap[fr[t].job].files)
              /\ Len(fr[t].outs) = Len(heap[fr[t].job].files)
        /\ (fr[t].op = "process_batch" /\ fr[t].pc = "idle") => fr[t].ret.tag \in {"dict", "None"}

\* C1 witness: the engine raised for file 0 of a two-file job, was invoked for
\* file 1 all the same, and the loop has ended.
C1_Witness ==
    \E t \in Threads :
        /\ LoopDone(t)
        /\ Len(fr[t].outs) = 2
        /\ ~fr[t].outs[1].ok
        /\ fr[t].invoked[2].index = 1

\* C2 (as claimed): whenever a process call on a job has returned and no call is
\* in flight, the job has progress = total = len(results) + len(errors).
C2_ProcessedCounts ==
    \A t \in Threads :
        (ProcessReturned(t) /\ AllIdle) =>
            LET j == heap[fr[t].job]
            IN  /\ j.progress = j.total
                /\ j.total = Len(j.results) + Len(j.errors)

\* C3 (as claimed): in a COMPLETED job every file index 0..total-1 is the index of
\* exactly one record of results ++ errors.
C3_IndexOnce ==
    \A o \in Objs :
        heap[o].status = COMPLETED =>
            \A i \in 0..(heap[o].total - 1) :
                Cardinality(Places(heap[o].results, i)) + Cardinality(Places(heap[o].errors, i)) = 1

\* C4 (as claimed): every snapshot get_job returns of a job that has begun
\* processing has progress = results_count + errors_count.
C4_ObservedProgress ==
    \A t \in Threads :
        (fr[t].op = "get_job" /\ fr[t].pc = "idle" /\ fr[t].ret.tag = "dict") =>
            (fr[t].ret.val.status # PENDING =>
                fr[t].ret.val.progress = fr[t].ret.val.results_count + fr[t].ret.val.errors_count)

\* C5 (as claimed): COMPLETED, FAILED and CANCELLED are terminal: no step changes the
\* status of a job that has one of them.
C5_Terminal ==
    [][\A o \in Objs :
          heap[o].status \in {COMPLETED, FAILED, CANCELLED} => heap'[o].status = heap[o].status]_vars

\* The parts of the store a call on an unknown job must leave alone.
StoreUnchanged ==
    /\ jobs' = jobs
    /\ heap' = heap
    /\ job_counter' = job_counter
    /\ fs_dirs' = fs_dirs
    /\ fs_files' = fs_files

\* C6: cancel_job returns False and changes nothing when the job is unknown or its
\* status, as cancel_job reads it, is not PENDING or PROCESSING; otherwise it sets the
\* status to CANCELLED and returns True. No statement of it changes progress,
\* results, errors, files or total, or any other job.
C6_Cancel ==
    [][\A t \in Threads :
          LET f == fr[t]
              g == fr'[t]
          IN  /\ cancel_job_lookup(t) =>
                    /\ StoreUnchanged
                    /\ IF Lookup(jobs, g.job_id) = 0
                       THEN g.pc = "idle" /\ g.ret = PyBool(FALSE)
                       ELSE g.pc = "cancel_check" /\ g.job = Lookup(jobs, g.job_id)
              /\ (f.pc = "cancel_check" /\ g # f) =>
                    /\ StoreUnchanged
                    /\ IF heap[f.job].status \in {PENDING, PROCESSING}
                       THEN g.pc = "cancel_set"
                       ELSE g.pc = "idle" /\ g.ret = PyBool(FALSE)
              /\ (f.pc = "cancel_set" /\ g # f) =>
                    /\ g.pc = "idle" /\ g.ret = PyBool(TRUE)
                    /\ heap' = [heap EXCEPT ![f.job].status = CANCELLED]
                    /\ jobs' = jobs /\ job_counter' = job_counter]_vars

\* C6 witness: cancel_job returned True on a job cancelled in the middle of its
\* processing loop (one of two files done).
C6_Witness ==
    \E t \in Threads :
        /\ fr[t].op = "cancel_job" /\ fr[t].pc = "idle" /\ fr[t].ret = PyBool(TRUE)
        /\ heap[fr[t].job].status = CANCELLED
        /\ heap[fr[t].job].progress = 1
        /\ heap[fr[t].job].total = 2

\* C7: once the loop of process_*_batch has gone over all files the job is COMPLETED,
\* however many files failed; no job is ever FAILED; and the HTTP process request
\* whose loop ran answers 200 with the snapshot of the completed job.
C7_Completed ==
    /\ \A o \in Objs : heap[o].status # FAILED
    /\ \A t \in Threads :
          /\ (fr[t].op = "process_batch" /\ fr[t].pc \in {"proc_get", "get_build"}) =>
                heap[fr[t].job].status = COMPLETED
          /\ (fr[t].http = "process_batch_job" /\ fr[t].op = "process_batch"
                /\ fr[t].pc = "idle" /\ fr[t].job # 0) =>
                /\ fr[t].resp.code = 200
                /\ fr[t].resp.body.tag = "dict"
                /\ "status" \in DOMAIN fr[t].resp.body.val
                /\ fr[t].resp.body.val.status = "completed"
                /\ fr[t].resp.body.val.job_id = fr[t].job_id
                /\ fr[t].resp.body.val.progress = fr[t].resp.body.val.total
                /\ fr[t].resp.body.val.results_count + fr[t].resp.body.val.errors_count
                     >= fr[t].resp.body.val.total

\* C7 witness: a 200 response for a two-file job both of whose files failed.
C7_Witness ==
    \E t \in Threads :
        /\ fr[t].http = "process_batch_job" /\ fr[t].pc = "idle"
        /\ fr[t].resp.code = 200
        /\ fr[t].resp.body.tag = "dict"
        /\ "status" \in DOMAIN fr[t].resp.body.val
        /\ fr[t].resp.body.val.status = "completed"
        /\ fr[t].resp.body.val.total = 2
        /\ fr[t].resp.body.val.errors_count = 2
        /\ fr[t].resp.body.val.results_count = 0

\* The outcomes of a call that were returns, resp. raises.
Oks(outs) == { k \in 1..Len(outs) : outs[k].ok }
Fails(outs) == { k \in 1..Len(outs) : ~outs[k].ok }

\* The job had no record when this call began: every record is one of this call's.
FreshCall(t) ==
    Len(heap[fr[t].job].results) + Len(heap[fr[t].job].errors) = Len(fr[t].outs)

\* The last n elements of a sequence.
Last(seq, n) == SubSeq(seq, Len(seq) - n + 1, Len(seq))

StrictlyIncreasing(ns) == \A a, b \in 1..Len(ns) : a < b => ns[a] < ns[b]

\* C8: when a process call on a job without records returns its snapshot, for every
\* file index i: if the engine returned v, results holds
\* {file: basename(files[i]), index: i, success: true, data: v} and errors holds no
\* record of i; if it raised with message m, errors holds
\* {file: basename(files[i]), index: i, error: m} and results holds no record of i;
\* results_count and errors_count of the snapshot are the numbers of successes and failures.
C8_Records ==
    [][\A t \in Threads :
          (fr[t].op = "process_batch" /\ fr[t].pc = "get_build" /\ fr'[t] # fr[t]
             /\ FreshCall(t)) =>
              LET j == heap[fr[t].job]
                  outs == fr[t].outs
              IN  /\ Len(outs) = Len(j.files)
                  /\ \A k \in 1..Len(j.files) :
                        IF outs[k].ok
                        THEN /\ \E p \in 1..Len(j.results) :
                                   j.results[p] = [file |-> basename(j.files[k]), index |-> k - 1,
                                                   success |-> TRUE, data |-> outs[k].val]
                             /\ Places(j.errors, k - 1) = {}
                        ELSE /\ \E p \in 1..Len(j.errors) :
                                   j.errors[p] = [file |-> basename(j.files[k]), index |-> k - 1,
                                                  error |-> outs[k].val]
                             /\ Places(j.results, k - 1) = {}
                  /\ fr'[t].ret.tag = "dict"
                  /\ fr'[t].ret.val.results_count = Cardinality(Oks(outs))
                  /\ fr'[t].ret.val.errors_count = Cardinality(Fails(outs))
                  /\ fr'[t].ret.val.results = j.results
                  /\ fr'[t].ret.val.errors = j.errors]_vars

\* C8 witness (scenario B): the engine returned for "u/a.p" and raised for "b.q"; the
\* snapshot has one result, and one error {file: "b.q", index: 1, error: "e1"}.
C8_Witness ==
    \E t \in Threads :
        /\ ProcessReturned(t)
        /\ fr[t].ret.tag = "dict"
        /\ fr[t].ret.val.progress = 2
        /\ fr[t].ret.val.results_count = 1
        /\ fr[t].ret.val.errors_count = 1
        /\ fr[t].ret.val.results[1].file = <<"a", ".", "p">>
        /\ fr[t].ret.val.results[1].data = "r2"
        /\ fr[t].ret.val.errors[1] = [file |-> <<"b", ".", "q">>, index |-> 1, error |-> "e1"]

\* C9: in one process call the engine is invoked on the files in order 0, 1, ...,
\* the invocation of file i + 1 begins only when that of file i has returned or
\* raised, and the records the call has appended to results, and to errors, have
\* strictly increasing 'index' values.
C9_Order ==
    \A t \in Threads :
        (fr[t].op = "process_batch" /\ fr[t].job # 0 /\ fr[t].pc # "idle") =>
            LET j == heap[fr[t].job]
                outs == fr[t].outs
            IN  /\ \A k \in 1..Len(fr[t].invoked) :
                      /\ fr[t].invoked[k].index = k - 1
                      /\ fr[t].invoked[k].file = j.files[k]
                /\ Len(outs) <= Len(fr[t].invoked)
                /\ Len(fr[t].invoked) <= Len(outs) + 1
                /\ Cardinality(Oks(outs)) <= Len(j.results)
                /\ Cardinality(Fails(outs)) <= Len(j.errors)
                /\ StrictlyIncreasing(Indexes(Last(j.results, Cardinality(Oks(outs)))))
                /\ StrictlyIncreasing(Indexes(Last(j.errors, Cardinality(Fails(outs)))))

\* C9 witness: a call that has appended two results, with indexes 0 and 1.
C9_Witness ==
    \E t \in Threads :
        /\ LoopDone(t)
        /\ Cardinality(Oks(fr[t].outs)) = 2
        /\ Indexes(heap[fr[t].job].results) = <<0, 1>>

\* C10: on a job_id that is not in the store get_job returns None, process_*_batch
\* returns {'error': 'Job not found'} at once (no engine call), export_results returns
\* the same and makes no directory or file, delete_job and cancel_job return False;
\* none of them changes the store, the counter or the file system. On a job_id that
\* is in the store get_job returns a snapshot, never None.
C10_NotFound ==
    [][\A t \in Threads :
          LET g == fr'[t]
              unknown == Lookup(jobs, g.job_id) = 0
          IN  /\ get_job_lookup(t) =>
                    /\ StoreUnchanged
                    /\ IF unknown THEN g.pc = "idle" /\ g.ret = None ELSE g.pc = "get_build"
              /\ (fr[t].op = "get_job" /\ fr[t].pc = "get_build" /\ g # fr[t]) =>
                    /\ StoreUnchanged
                    /\ g.pc = "idle" /\ g.ret # None /\ g.ret.tag = "dict"
                    /\ g.ret.val.job_id = fr[t].job_id
              /\ (process_batch_lookup(t) /\ unknown) =>
                    /\ StoreUnchanged
                    /\ g.pc = "idle" /\ g.ret = PyDict([error |-> "Job not found"])
              /\ (export_results_lookup(t) /\ unknown) =>
                    /\ StoreUnchanged
                    /\ g.pc = "idle" /\ g.ret = PyDict([error |-> "Job not found"])
              /\ (delete_job_check(t) /\ unknown) =>
                    /\ StoreUnchanged
                    /\ g.pc = "idle" /\ g.ret = PyBool(FALSE)
              /\ (cancel_job_lookup(t) /\ unknown) =>
                    /\ StoreUnchanged
                    /\ g.pc = "idle" /\ g.ret = PyBool(FALSE)]_vars

\* C10 witness: export_results on the id of a deleted job returned the not-found
\* dict and the file system is still empty.
C10_Witness ==
    \E t \in Threads :
        /\ fr[t].op = "export_results" /\ fr[t].pc = "idle"
        /\ fr[t].ret = PyDict([error |-> "Job not found"])
        /\ \E k \in 1..Len(jobs) : jobs[k].id = fr[t].job_id /\ jobs[k].obj = 0
        /\ fs_dirs = {}
        /\ DOMAIN fs_files = {}

\* The job a request's job_id names in the store, 0 when there is none.
JobOf(id) == Lookup(jobs, id)

\* A handler that is about to answer a request whose job_id was not in the store.
AnswersUnknown(f) ==
    \/ f.pc \in {"gbj_respond", "pbj_dispatch"} /\ f.ret.tag = "None"
    \/ f.pc = "dbj_respond" /\ f.ret.tag = "bool" /\ f.ret.val = FALSE
    \/ f.pc = "ebj_respond" /\ f.ret.tag = "dict" /\ "error" \in DOMAIN f.ret.val

\* C11 (as claimed): GET, process, DELETE and export of /api/batch/<id> on a job_id
\* that is not in the store change nothing and answer 404.
C11_Http404 ==
    [][\A t \in Threads :
          LET f == fr[t]
              g == fr'[t]
          IN  /\ ((\/ get_batch_job_get(t)
                   \/ process_batch_job_get(t)
                   \/ delete_batch_job_delete(t)
                   \/ export_batch_results_export(t)) /\ JobOf(g.job_id) = 0) =>
                    /\ StoreUnchanged /\ ocr_engine' = ocr_engine
                    /\ AnswersUnknown(g)
              /\ (AnswersUnknown(f) /\ g # f) =>
                    /\ StoreUnchanged /\ ocr_engine' = ocr_engine
                    /\ g.pc = "idle"
                    /\ g.resp.code = 404]_vars

\* C12: POST /api/batch/<id>/process on a job whose job_type is none of 'ocr',
\* 'structure', 'vl' changes nothing (the job keeps its status, progress, results and
\* errors), never reaches an engine, and answers 400.
C12_UnknownKind ==
    [][\A t \in Threads :
          LET f == fr[t]
              g == fr'[t]
          IN  (/\ g # f
               /\ g.http = "process_batch_job"
               /\ JobOf(g.job_id) # 0
               /\ heap[JobOf(g.job_id)].job_type \notin ProcessKinds) =>
                  /\ StoreUnchanged /\ ocr_engine' = ocr_engine
                  /\ g.pc \in {"get_build", "pbj_dispatch", "idle"}
                  /\ g.invoked = <<>>
                  /\ (g.pc = "idle" =>
                        /\ g.resp.code = 400
                        /\ g.resp.body =
                             ErrorBody("Unknown job type: " \o heap[JobOf(g.job_id)].job_type))]_vars

\* C12 witness: a process request on a two-file 'pdf' job was answered 400 and the job
\* is still PENDING with nothing processed.
C12_Witness ==
    \E t \in Threads :
        /\ fr[t].http = "process_batch_job" /\ fr[t].pc = "idle"
        /\ fr[t].resp.code = 400
        /\ JobOf(fr[t].job_id) # 0
        /\ LET j == heap[JobOf(fr[t].job_id)]
           IN  /\ j.job_type = "pdf" /\ j.total = 2
               /\ j.status = PENDING /\ j.progress = 0
               /\ j.results = <<>> /\ j.errors = <<>>

\* The OCREngine constructor refused the request's lang / version or failed to start.
EngineRefused(f) ==
    /\ f.resp.code = 500
    /\ f.resp.body.val.error \in {"Failed to initialize PaddleOCR", "Unsupported language"}

\* C13 (as claimed): a process request on an existing job of kind 'ocr', 'structure'
\* or 'vl', whose engine could be built, answers 200 with the final snapshot:
\* status 'completed' and progress = total.
C13_AllKinds ==
    \A t \in Threads :
        (/\ fr[t].http = "process_batch_job" /\ fr[t].pc = "idle"
         /\ fr[t].ret.tag = "dict" /\ "job_type" \in DOMAIN fr[t].ret.val
         /\ fr[t].ret.val.job_type \in ProcessKinds
         /\ ~EngineRefused(fr[t])) =>
            /\ fr[t].resp.code = 200
            /\ fr[t].resp.body = fr[t].ret
            /\ fr[t].ret.val.status = COMPLETED
            /\ fr[t].ret.val.progress = fr[t].ret.val.total

\* C14: every create_job returns an id no earlier create_job of this BatchProcessor
\* returned, also when the earlier job has been deleted: the jobs ever created (the
\* objects of the heap, in creation order) have pairwise different ids, the id create_job
\* is about to store is not in the store, and storing it adds one entry and
\* replaces none.
C14_UniqueIds ==
    /\ \A a, b \in Objs : a # b => heap[a].job_id # heap[b].job_id
    /\ Len(jobs) = Len(heap)
    /\ \A k \in 1..Len(jobs) : jobs[k].id = heap[k].job_id /\ jobs[k].obj \in {0, k}
    /\ \A t \in Threads :
          fr[t].pc = "create_store" =>
              /\ \A o \in Objs : heap[o].job_id # fr[t].job_id
              /\ \A k \in 1..Len(jobs) : jobs[k].id # fr[t].job_id
    /\ \A t \in Threads :
          (fr[t].op = "create_job" /\ fr[t].pc = "idle") =>
              /\ fr[t].ret = PyStr(fr[t].job_id)
              /\ heap[fr[t].job].job_id = fr[t].job_id

\* C14 witness: a job was created and deleted, and a create_job after the deletion
\* returned another id.
C14_Witness ==
    \E t \in Threads :
        /\ fr[t].op = "create_job" /\ fr[t].pc = "idle"
        /\ fr[t].job = 2
        /\ Len(jobs) = 2 /\ jobs[1].obj = 0 /\ jobs[2].obj = 2
        /\ fr[t].ret = PyStr(JobId(2))
        /\ heap[1].job_id = JobId(1)

\* C15: when create_job(job_type, files, options) returns id j, get_job(j) reports
\* status 'pending', progress 0, total = len(files), percent 0, no results and no
\* errors and the given job_type; the store holds the jobs it held, in their order,
\* followed by j, and every job that existed is unchanged.
C15_Create ==
    [][\A t \in Threads :
          create_job_store(t) =>
              LET id == fr[t].job_id
                  got == GetJob(jobs', heap', id)
              IN  /\ fr'[t].pc = "idle" /\ fr'[t].ret = PyStr(id)
                  /\ got.tag = "dict"
                  /\ got.val.job_id = id
                  /\ got.val.job_type = fr[t].job_type
                  /\ got.val.status = "pending"
                  /\ got.val.progress = 0
                  /\ got.val.total = Len(fr[t].files)
                  /\ got.val.percent = 0
                  /\ got.val.results_count = 0 /\ got.val.results = <<>>
                  /\ got.val.errors_count = 0 /\ got.val.errors = <<>>
                  /\ Keys(jobs') = Keys(jobs) \o <<id>>
                  /\ \A k \in 1..Len(Keys(jobs)) :
                        Lookup(jobs', Keys(jobs)[k]) = Lookup(jobs, Keys(jobs)[k])
                  /\ \A o \in Objs : heap'[o] = heap[o]
                  /\ job_counter' = job_counter /\ fs_files' = fs_files /\ fs_dirs' = fs_dirs]_vars

\* C15 witness: get_job on the id create_job has just returned for two files, while
\* another, processed job is in the store: a pending snapshot with total 2.
C15_Witness ==
    \E t, u \in Threads :
        /\ fr[u].op = "create_job" /\ fr[u].pc = "idle"
        /\ fr[t].op = "get_job" /\ fr[t].pc = "idle" /\ fr[t].job_id = fr[u].job_id
        /\ fr[t].ret.tag = "dict"
        /\ fr[t].ret.val.status = "pending"
        /\ fr[t].ret.val.total = 2 /\ fr[t].ret.val.progress = 0
        /\ Len(heap) = 2 /\ fr[u].job = 2

\* C16 (as claimed): delete_job(job_id) returns False and changes nothing when the job
\* is not in the store; when it is, whatever its status, the call returns True, the
\* job is gone (get_job returns None, list_jobs does not have it, a second delete_job
\* returns False), and no other job is removed or changed.
C16_Delete ==
    [][\A t \in Threads :
          LET f == fr[t]
              g == fr'[t]
          IN  /\ (delete_job_check(t) /\ JobOf(g.job_id) = 0) =>
                    /\ StoreUnchanged
                    /\ g.pc = "idle" /\ g.ret.tag = "bool" /\ g.ret.val = FALSE
              /\ (delete_job_check(t) /\ JobOf(g.job_id) # 0) =>
                    /\ StoreUnchanged
                    /\ g.pc = "delete_del"
              /\ (f.op = "delete_job" /\ f.pc = "delete_del" /\ g # f) =>
                    /\ g.pc = "idle" /\ g.ret.tag = "bool" /\ g.ret.val = TRUE
                    /\ Lookup(jobs', f.job_id) = 0
                    /\ GetJob(jobs', heap', f.job_id).tag = "None"
                    /\ \A k \in 1..Len(Keys(jobs')) : Keys(jobs')[k] # f.job_id
                    /\ \A k \in 1..Len(Keys(jobs)) :
                          Keys(jobs)[k] # f.job_id =>
                              Lookup(jobs', Keys(jobs)[k]) = Lookup(jobs, Keys(jobs)[k])
                    /\ heap' = heap
                    /\ job_counter' = job_counter]_vars

\* The threads that are inside a process_*_batch call on job object o.
Processing(o) ==
    { t \in Threads : fr[t].op = "process_batch" /\ fr[t].pc # "idle" /\ fr[t].job = o }

\* |a - b|
Dist(a, b) == IF a >= b THEN a - b ELSE b - a

\* C17 (as claimed), percent in tenths: a snapshot's percent is 0 when total = 0 and
\* otherwise progress / total * 100 rounded to one decimal, within 0..100; get_job
\* always returns a snapshot for a job it found; a process call on a zero-file job
\* sets the status COMPLETED with progress 0 and returns the job's snapshot with
\* progress 0, total 0, percent 0; and while one process call is working on a job (and
\* no other is), the percent a get_job would report never gets smaller.
C17_Percent ==
    [][/\ \A t \in Threads :
            (fr[t].op = "get_job" /\ fr[t].pc = "idle" /\ fr[t].ret.tag = "dict") =>
                LET s == fr[t].ret.val
                IN  /\ s.total = 0 => s.percent = 0
                    /\ s.total > 0 =>
                          /\ s.percent >= 0 /\ s.percent <= 1000
                          /\ 2 * Dist(s.percent * s.total, 1000 * s.progress) <= s.total
       /\ \A t \in Threads : get_job_build(t) => fr'[t].ret.tag = "dict"
       /\ \A t \in Threads :
            /\ (process_batch_finish(t) /\ heap[fr[t].job].total = 0) =>
                  /\ heap'[fr[t].job].status = COMPLETED
                  /\ heap'[fr[t].job].progress = 0
            /\ (/\ fr[t].op = "process_batch" /\ fr[t].pc = "get_build" /\ fr'[t] # fr[t]
                 /\ heap[fr[t].gjob].total = 0) =>
                  /\ fr'[t].ret.tag = "dict"
                  /\ fr'[t].ret.val.status = heap[fr[t].gjob].status
                  /\ fr'[t].ret.val.progress = 0 /\ fr'[t].ret.val.total = 0
                  /\ fr'[t].ret.val.percent = 0
       /\ \A o \in Objs :
            (Cardinality(Processing(o)) = 1 /\ Processing(o)' = Processing(o)) =>
                percent(heap'[o].progress, heap'[o].total)
                    >= percent(heap[o].progress, heap[o].total)]_vars

\* What get_job has to report of job object o.
Observed(h, o) ==
    <<h[o].job_id, h[o].job_type, h[o].status, h[o].progress, h[o].total,
      Len(h[o].results), Len(h[o].errors), h[o].results, h[o].errors>>

\* The step is a step of a call of one of the methods ops on job_id id.
ActingOn(ops, id) ==
    \E t \in Threads : fr'[t] # fr[t] /\ fr'[t].op \in ops /\ fr'[t].job_id = id

\* get_job changes nothing, and the snapshot it returns is the state of the job it
\* found under the id.
GetReportsState ==
    \A t \in Threads :
        /\ get_job_lookup(t) =>
              /\ StoreUnchanged
              /\ fr'[t].gjob = JobOf(fr'[t].job_id)
        /\ (fr[t].op = "get_job" /\ fr[t].pc = "get_build" /\ fr'[t] # fr[t]) =>
              /\ StoreUnchanged
              /\ fr'[t].ret.tag = "dict"
              /\ LET s == fr'[t].ret.val
                 IN  <<s.job_id, s.job_type, s.status, s.progress, s.total, s.results_count,
                       s.errors_count, s.results, s.errors>> = Observed(heap, fr[t].gjob)

\* Between two get_job calls only the calls of the methods ops on the job change what
\* the second one reports.
OnlyChangedBy(ops) ==
    \A k \in 1..Len(Keys(jobs)) :
        LET id == Keys(jobs)[k]
        IN  ~ActingOn(ops, id) =>
                /\ Lookup(jobs', id) = Lookup(jobs, id)
                /\ Observed(heap', Lookup(jobs, id)) = Observed(heap, Lookup(jobs, id))

\* C18 (as claimed): two get_job calls on a job with no process or delete call on it
\* between them return equal snapshots: get_job reports the job's state and changes
\* nothing, and no step outside a process or delete call on the job changes that state.
C18_Idempotent ==
    [][GetReportsState /\ OnlyChangedBy({"process_batch", "delete_job"})]_vars

\* C18 (amended): ... with no process, delete or cancel call on it between them.
C18_IdempotentNoCancel ==
    [][GetReportsState /\ OnlyChangedBy({"process_batch", "delete_job", "cancel_job"})]_vars

\* C18 witness: two get_job calls on a processed job, one file of which failed, have
\* returned the same snapshot.
C18_Witness ==
    \E t, u \in Threads :
        /\ t # u
        /\ fr[t].op = "get_job" /\ fr[t].pc = "idle" /\ fr[t].ret.tag = "dict"
        /\ fr[u].op = "get_job" /\ fr[u].pc = "idle" /\ fr[u].ret = fr[t].ret
        /\ fr[t].ret.val.status = "completed"
        /\ fr[t].ret.val.errors_count = 1

\* The job objects that are in the store.
Stored == { o \in Objs : \E k \in 1..Len(jobs) : jobs[k].obj = o }

ExtDots(name) ==
    { k \in 2..Len(name) :
        /\ name[k] = "."
        /\ \A l \in (k + 1)..Len(name) : name[l] # "."
        /\ \E l \in 1..(k - 1) : name[l] # "." }

\* A file name without its extension.
Stem(name) ==
    IF ExtDots(name) = {} THEN name
    ELSE SubSeq(name, 1, (CHOOSE k \in ExtDots(name) : TRUE) - 1)

\* The files that exist in directory dir.
FilesIn(files, dir) ==
    { q \in DOMAIN files : Len(q) = Len(dir) + 1 /\ SubSeq(q, 1, Len(dir)) = dir }

\* C20: when export_results on a job in the store returns, {output_dir}/{job_id}_results.json
\* holds total_files = total, successful = len(results), failed = len(errors); for every
\* record of results {output_dir}/individual/{name without extension}_result.json
\* holds the data of the last record of results with that name without extension; a
\* directory export_results made itself holds one individual file per distinct name;
\* total_exported is len(results); and the job is unchanged.
C20_Export ==
    [][\A t \in Threads :
          (fr[t].op = "export_results" /\ fr[t].pc = "export_individual"
              /\ fr'[t].pc = "idle") =>
              LET j == heap[fr[t].job]
                  out == fr'[t].ret.val
                  dir == out.output_dir
                  ind == dir \o << <<"individual">> >>
                  combined == dir \o << j.job_id \o <<"_results.json">> >>
                  artifact(k) == ind \o << Stem(j.results[k].file) \o <<"_result.json">> >>
                  last(k) == CHOOSE l \in 1..Len(j.results) :
                                /\ Stem(j.results[l].file) = Stem(j.results[k].file)
                                /\ \A m \in (l + 1)..Len(j.results) :
                                      Stem(j.results[m].file) # Stem(j.results[k].file)
              IN  /\ fr'[t].ret.tag = "dict" /\ out.success
                  /\ heap' = heap /\ jobs' = jobs /\ job_counter' = job_counter
                  /\ dir \in fs_dirs' /\ ind \in fs_dirs'
                  /\ out.combined_file = combined /\ out.individual_dir = ind
                  /\ combined \in DOMAIN fs_files'
                  /\ fs_files'[combined].total_files = j.total
                  /\ fs_files'[combined].successful = Len(j.results)
                  /\ fs_files'[combined].failed = Len(j.errors)
                  /\ out.total_exported = Len(j.results)
                  /\ \A k \in 1..Len(j.results) :
                        /\ artifact(k) \in DOMAIN fs_files'
                        /\ fs_files'[artifact(k)] = j.results[last(k)].data
                  /\ dir[1][1] = "tmp" =>
                        Cardinality(FilesIn(fs_files', ind))
                            = Cardinality({ Stem(j.results[k].file) : k \in 1..Len(j.results) })]_vars

\* C20 witness: export_results has returned for a job whose two results have the same
\* name and different data: total_exported is 2 and the one individual file of the new
\* directory holds the data of the second.
C20_Witness ==
    \E t \in Threads :
        /\ fr[t].op = "export_results" /\ fr[t].pc = "idle" /\ fr[t].ret.tag = "dict"
        /\ "total_exported" \in DOMAIN fr[t].ret.val
        /\ fr[t].ret.val.total_exported = 2
        /\ fr[t].ret.val.output_dir[1][1] = "tmp"
        /\ LET j == heap[fr[t].job]
               ind == fr[t].ret.val.individual_dir
           IN  /\ Len(j.results) = 2
               /\ j.results[1].file = j.results[2].file
               /\ j.results[1].data # j.results[2].data
               /\ Cardinality(FilesIn(fs_files, ind)) = 1
               /\ \A q \in FilesIn(fs_files, ind) : fs_files[q] = j.results[2].data

\* C21 (as claimed): a job's progress never gets smaller and stays within 0..total,
\* whatever operations are called on the job, a second process call included.
C21_Progress ==
    [][\A o \in Objs :
          /\ heap'[o].progress >= heap[o].progress
          /\ heap'[o].progress >= 0
          /\ heap'[o].progress <= heap'[o].total]_vars

\* C22: cancel_job does not interrupt a processing loop. Whatever the job's status
\* is (a concurrent cancel_job may have set it to CANCELLED), a statement of the loop
\* leaves the status alone, the outcome of an engine call appends one record, and the
\* progress assignment is followed by the engine call on the next file while files
\* remain; the loop ends only after the last file, with progress = total and the
\* engine invoked on every file.
C22_CancelNoInterrupt ==
    [][\A t \in Threads :
          LET f == fr[t]
              g == fr'[t]
              j == heap[f.job]
              k == heap'[f.job]
          IN  /\ (f.op = "process_batch" /\ f.pc = "engine_wait" /\ g # f) =>
                    /\ g.pc = "set_progress"
                    /\ k.status = j.status
                    /\ Len(k.results) + Len(k.errors) = Len(j.results) + Len(j.errors) + 1
              /\ (f.op = "process_batch" /\ f.pc = "set_progress" /\ g # f) =>
                    /\ k.status = j.status
                    /\ k.progress = f.i + 1
                    /\ IF f.i + 1 < Len(j.files)
                       THEN /\ g.pc = "engine_wait"
                            /\ g.invoked = Append(f.invoked,
                                                  [method |-> EngineMethod(f.kind),
                                                   file |-> j.files[f.i + 2], index |-> f.i + 1])
                       ELSE /\ g.pc = "proc_finish"
                            /\ k.progress = k.total
                            /\ Len(g.invoked) = Len(j.files)
                            /\ Len(g.outs) = Len(j.files)]_vars

\* C22 witness: the loop of the only process call has gone over both files of a job
\* that a cancel_job call, which returned True, cancelled while the loop ran.
C22_Witness ==
    \E t, u \in Threads :
        /\ nprocess = 1
        /\ fr[t].op = "process_batch" /\ fr[t].pc = "proc_finish"
        /\ heap[fr[t].job].status = CANCELLED
        /\ heap[fr[t].job].progress = 2 /\ heap[fr[t].job].total = 2
        /\ Len(fr[t].invoked) = 2
        /\ Len(heap[fr[t].job].results) + Len(heap[fr[t].job].errors) = 2
        /\ fr[u].op = "cancel_job" /\ fr[u].pc = "idle" /\ fr[u].ret = PyBool(TRUE)
        /\ fr[u].job = fr[t].job

\* Sequence a is the beginning of sequence b.
IsPrefix(a, b) == Len(a) <= Len(b) /\ SubSeq(b, 1, Len(a)) = a

\* C23: results and errors are append-only. In every step the results (errors) of a
\* job before the step are a prefix of its results (errors) after it; a step that
\* changes either is the outcome of an engine call in a process_*_batch call on that
\* job; and such an outcome adds exactly one record to exactly one of the two.
C23_AppendOnly ==
    [][/\ \A o \in Objs :
            /\ IsPrefix(heap[o].results, heap'[o].results)
            /\ IsPrefix(heap[o].errors, heap'[o].errors)
            /\ (heap'[o].results # heap[o].results \/ heap'[o].errors # heap[o].errors) =>
                  \E t \in Threads :
                      /\ fr[t].op = "process_batch" /\ fr[t].pc = "engine_wait"
                      /\ fr[t].job = o /\ fr'[t] # fr[t]
       /\ \A t \in Threads :
            (fr[t].op = "process_batch" /\ fr[t].pc = "engine_wait" /\ fr'[t] # fr[t]) =>
                LET j == heap[fr[t].job]
                    k == heap'[fr[t].job]
                IN  \/ Len(k.results) = Len(j.results) + 1 /\ k.errors = j.errors
                    \/ Len(k.errors) = Len(j.errors) + 1 /\ k.results = j.results]_vars

\* C23 witness: a job that was processed twice has four records, the two of the
\* first call still at the front of results and errors.
C23_Witness ==
    \E o \in Objs :
        /\ Len(heap[o].results) = 2 /\ Len(heap[o].errors) = 2
        /\ heap[o].results[1].index = 0 /\ heap[o].results[2].index = 1
        /\ heap[o].errors[1].index = 1 /\ heap[o].errors[2].index = 0
        /\ AllIdle

\* The fields of a job that are given at its creation.
Given(j) == <<j.job_id, j.job_type, j.files, j.total, j.options>>

\* C24: job_id, job_type, files, total and options of a job are fixed at creation: no
\* step of any method changes them on an existing job object, and every job object
\* has total = len(files) from its creation on.
C24_Fixed ==
    [][/\ Len(heap') >= Len(heap)
       /\ \A o \in Objs : Given(heap'[o]) = Given(heap[o])
       /\ \A o \in 1..Len(heap') : heap'[o].total = Len(heap'[o].files)]_vars

\* C24 witness: export_results has returned for a two-file job that was processed to
\* COMPLETED; the job still has its two files, in the order given, and total 2.
C24_Witness ==
    \E t \in Threads :
        /\ fr[t].op = "export_results" /\ fr[t].pc = "idle" /\ fr[t].job # 0
        /\ heap[fr[t].job].status = COMPLETED
        /\ heap[fr[t].job].progress = 2
        /\ heap[fr[t].job].files = <<PathUA, PathB>>
        /\ heap[fr[t].job].total = 2
        /\ heap[fr[t].job].job_id = fr[t].job_id

\* C25: no job re-enters PENDING. A job object is PENDING when it is created; a step
\* never takes a status other than PENDING to PENDING; the steps that end PENDING are
\* the first status assignment of a process call and the assignment of a cancel call;
\* and once a process or cancel call that found the job has returned, the job is not
\* PENDING.
C25_NoPendingAgain ==
    [][/\ \A o \in (Len(heap) + 1)..Len(heap') : heap'[o].status = PENDING
       /\ \A o \in Objs :
            /\ heap[o].status # PENDING => heap'[o].status # PENDING
            /\ (heap[o].status = PENDING /\ heap'[o].status # PENDING) =>
                  \E t \in Threads :
                      /\ fr[t].job = o /\ fr'[t] # fr[t]
                      /\ \/ fr[t].op = "process_batch" /\ fr[t].pc = "proc_start"
                            /\ heap'[o].status = PROCESSING
                         \/ fr[t].op = "cancel_job" /\ fr[t].pc = "cancel_set"
                            /\ heap'[o].status = CANCELLED
       /\ \A t \in Threads :
            (fr'[t].op \in {"process_batch", "cancel_job"} /\ fr'[t].pc = "idle"
                /\ fr'[t].job # 0) =>
                heap'[fr'[t].job].status # PENDING]_vars

\* C25 witness: a second process call has started on a job another call has already
\* processed, one file of which failed: the job is PROCESSING again, not PENDING.
C25_Witness ==
    \E t, u \in Threads :
        /\ t # u
        /\ ProcessReturned(u)
        /\ fr[t].op = "process_batch" /\ fr[t].pc = "engine_wait" /\ fr[t].i = 0
        /\ fr[t].job = fr[u].job
        /\ heap[fr[t].job].status = PROCESSING
        /\ heap[fr[t].job].errors # <<>>

\* What processing makes of a job, and a snapshot without the job's identity.
Processed(j) == <<j.status, j.progress, j.total, j.results, j.errors>>
Anonymous(s) ==
    <<s.status, s.progress, s.total, s.percent, s.results_count, s.errors_count,
      s.results, s.errors>>

\* The engine calls a process_*_batch call has made, without the method's name.
Calls(inv) == [k \in 1..Len(inv) |-> <<inv[k].file, inv[k].index>>]

\* The two process_*_batch calls the threads are in, or have returned from, are the
\* only calls so far besides create_job, and no two jobs were given the same id: each
\* call started on a job as create_job made it and nothing else has touched the jobs.
Undisturbed ==
    /\ ncalls - ncreate = 2
    /\ \A t \in Threads : fr[t].op = "process_batch" /\ fr[t].job # 0
    /\ \A o, q \in Objs : o # q => heap[o].job_id # heap[q].job_id

\* Two process_*_batch calls, on two jobs with the same files, that are at the same
\* statement after the same engine outcomes.
InStep(t, u) ==
    /\ Undisturbed
    /\ fr[t].op = "process_batch" /\ fr[u].op = "process_batch"
    /\ fr[t].job # 0 /\ fr[u].job # 0 /\ fr[t].job # fr[u].job
    /\ fr[t].job_id # fr[u].job_id
    /\ heap[fr[t].job].files = heap[fr[u].job].files
    /\ fr[t].pc = fr[u].pc
    /\ fr[t].pc \notin {"idle", "proc_start"}
    /\ fr[t].outs = fr[u].outs

C27_ReturnsSnapshot ==
    [][\A t \in Threads :
          (fr[t].op = "process_batch" /\ fr[t].pc # "idle" /\ fr[t].job # 0
              /\ fr'[t] # fr[t]) =>
              /\ jobs' = jobs
              /\ fr'[t].pc = "idle" =>
                    /\ fr'[t].ret.tag = "dict"
                    /\ fr'[t].ret = Snapshot(heap[fr[t].job])]_vars

\* A thread whose create_job call has returned.
Created(t) == fr[t].op = "create_job" /\ fr[t].pc = "idle"

\* C28 (as claimed): job ids stay unique when create_job calls interleave. No two job
\* objects have the same job_id; two create_job calls that have returned have returned
\* different ids; and when these were the only calls so far, each of the two jobs is
\* in the store under its id.
C28_ConcurrentIds ==
    /\ \A o, q \in Objs : o # q => heap[o].job_id # heap[q].job_id
    /\ \A t, u \in Threads :
          (t # u /\ Created(t) /\ Created(u)) =>
              /\ fr[t].ret # fr[u].ret
              /\ ncalls = 2 => Lookup(jobs, fr[t].job_id) = fr[t].job

\* C29 (as claimed): get_ocr_engine(lang, version) reuses the global engine when its
\* configuration is the requested one and constructs a new one otherwise, and the
\* engine it returns has the requested lang and ocr_version, also when another
\* request's get_ocr_engine call interleaves with it.
C29_EngineConfig ==
    [][\A t \in Threads :
          LET f == fr[t]
              g == fr'[t]
          IN  /\ (f.pc = "ocr_check" /\ g # f) =>
                    /\ ocr_engine' = ocr_engine
                    /\ g.pc = IF ocr_engine = <<f.lang, f.version>>
                              THEN "ocr_return" ELSE "ocr_construct"
              /\ (f.pc = "ocr_construct" /\ g.pc = "ocr_return") =>
                    ocr_engine' = <<f.lang, f.version>>
              /\ (f.pc = "ocr_return" /\ g # f) =>
                    /\ ocr_engine' = ocr_engine
                    /\ g.pc = "pbj_process"
                    /\ g.engine = <<f.lang, f.version>>]_vars

\* C30: operations are confined to the job they name. A step of a process_*_batch or
\* cancel_job call changes no job object but the one the call found under its id, and
\* leaves the store's entries and the id counter alone; a step of a delete_job call
\* changes no job object and no entry of another id; a step of a get_job, list_jobs or
\* export_results call changes no job object, no entry and not the counter, whatever
\* the status of the job.
C30_Confined ==
    [][\A t \in Threads :
          LET g == fr'[t]
          IN  fr'[t] # fr[t] =>
                /\ g.op \in {"process_batch", "cancel_job"} =>
                      /\ \A o \in Objs : o # g.job => heap'[o] = heap[o]
                      /\ jobs' = jobs
                      /\ job_counter' = job_counter
                /\ g.op = "delete_job" =>
                      /\ heap' = heap
                      /\ job_counter' = job_counter
                      /\ \A id \in JobIds :
                            id # g.job_id => Lookup(jobs', id) = Lookup(jobs, id)
                /\ g.op \in {"get_job", "list_jobs", "export_results"} =>
                      /\ heap' = heap
                      /\ jobs' = jobs
                      /\ job_counter' = job_counter]_vars

\* C30 witness: of two jobs in the store the first was processed to COMPLETED and
\* then exported, and the second is as it was created.
C30_Witness ==
    \E t, u \in Threads :
        /\ t # u
        /\ ProcessReturned(u)
        /\ fr[t].op = "export_results" /\ fr[t].pc = "idle" /\ fr[t].job = fr[u].job
        /\ heap[fr[t].job].status = COMPLETED /\ heap[fr[t].job].progress = 1
        /\ \E o \in Stored :
              /\ o # fr[t].job
              /\ fr[t].job \in Stored
              /\ heap[o] = NewJob(heap[o].job_id, "ocr", <<PathUA, PathB>>, "None")

====
